---- MODULE Spec2Model ----
(***************************************************************************)
(* Model of src/server.js: an Express server that keeps users in one JSON  *)
(* file, each user's weight / nutrition / legacy diet collections in JSON  *)
(* files named after the user id, and login sessions in express-session's  *)
(* in-memory store.                                                        *)
(*                                                                         *)
(* Node runs one handler at a time; a handler gives up control only at an  *)
(* await.  Every route of server.js that has no await is therefore one     *)
(* atomic action; register and login each have one await (bcrypt) and are  *)
(* two actions, with the request's locals kept in `inflight` in between.   *)
(***************************************************************************)
EXTENDS Integers, Sequences, FiniteSets, TLC

VARIABLES
    now,        \* the value Date.now() returns
    usersFile,  \* contents of data/users.json: a sequence of user records
    files,      \* kind -> (user id -> stored array), the files that exist
    sessions,   \* express-session MemoryStore: session id -> session
    inflight,   \* request slot -> locals of a handler suspended at its await
    resp,       \* the last response sent
    disk,       \* whether fs reads / writes currently throw
    okCount     \* history: username -> number of 201 responses of register

vars == <<now, usersFile, files, sessions, inflight, resp, okCount, disk>>

(***************************** bounds ************************************)
\* most records held by all collections together
MaxRecords == 3
\* most 201 responses of register that are counted
MaxOk == 2

(**************************** input sets *********************************)
Usernames == {"alice", "bob"}
\* passwords users register with, and passwords tried at login
Passwords == {"pw1"}
LoginPasswords == {"pw1", "pw2"}
Tokens == {"t1", "t2"}
Slots == {"r1", "r2"}
Kinds == {"weight", "nutrition", "diet"}
\* the per-user settings files
SettingsKinds == {"nutrition_settings", "diet_settings"}
FileKinds == Kinds \cup SettingsKinds
\* "" stands for a field that is missing from the request body (falsy)
Missing == ""

\* cookie.maxAge, in milliseconds
maxAge == 24 * 60 * 60 * 1000
\* the readings of the clock: two consecutive milliseconds, and the same
\* milliseconds maxAge later
Millis == {1, 2}
Instants == Millis \cup {x + maxAge : x \in Millis}

(************************* opaque collaborators **************************)
\* bcrypt.hash / bcrypt.compare: a one-way function with a verify operation
Hash(password) == [hashOf |-> password]
Compare(password, hashed) == hashed = Hash(password)

(****************************** users file *******************************)
\* fs.readFileSync / JSON.parse throws; fs.writeFileSync throws
ReadThrows == disk = "readFail"
WriteThrows == disk = "writeFail"

\* the disk starts or stops failing
SetDisk(d) ==
    /\ d # disk
    /\ disk' = d
    /\ UNCHANGED <<now, usersFile, files, sessions, inflight, resp, okCount>>

readUsers == IF ReadThrows THEN <<>> ELSE usersFile

\* the users file after writeUsers(users), whose result is not looked at
writeUsers(users) == IF WriteThrows THEN usersFile ELSE users

FindUser(users, username) ==
    {i \in 1..Len(users) : users[i].username = username}

(****************************** sessions *********************************)
\* MemoryStore getSession: an entry whose cookie has expired is no entry
Live(t) == t \in DOMAIN sessions /\ sessions[t].expires > now

Drop(store, t) == [x \in (DOMAIN store) \ {t} |-> store[x]]

\* The store after a request that presented session id t and neither
\* changed nor destroyed the session: store.get deletes an expired entry;
\* at res.end the session is touched, which resets cookie.expires to
\* now + maxAge and writes the cookie back (MemoryStore.touch).
Touched(t) ==
    IF Live(t) THEN [sessions EXCEPT ![t].expires = now + maxAge]
    ELSE Drop(sessions, t)

\* a check that takes a session entry without looking at its expiry
isAuthenticatedStale(t) == t \in DOMAIN sessions

\* isAuthenticated: req.session && req.session.userId
isAuthenticated(t) == Live(t)

Response(op, status, error) ==
    [op |-> op, status |-> status, error |-> error, kind |-> "",
     user |-> "", uid |-> 0, id |-> 0, tok |-> "", body |-> <<>>]

Idle == [op |-> "idle"]

(******************************* clock ***********************************)
\* Date.now() moves on to a later instant
AdvanceTo(x) ==
    /\ x > now
    /\ now' = x
    /\ UNCHANGED <<usersFile, files, sessions, inflight, resp, okCount, disk>>

(************************* POST /api/auth/register ***********************)
\* lines 176-189: validation, uniqueness check, then the await
RegisterStart(s, username, password) ==
    /\ inflight[s] = Idle
    /\ IF username = Missing \/ password = Missing
       THEN /\ resp' = Response("register", 400, "Username and password required")
            /\ UNCHANGED inflight
       ELSE LET users == readUsers IN
            IF FindUser(users, username) # {}
            THEN /\ resp' = [Response("register", 400, "Username already exists")
                               EXCEPT !.user = username]
                 /\ UNCHANGED inflight
            ELSE /\ inflight' = [inflight EXCEPT ![s] =
                        [op |-> "register", username |-> username,
                         password |-> password, users |-> users]]
                 /\ UNCHANGED resp
    /\ UNCHANGED <<now, usersFile, files, sessions, okCount, disk>>

\* a register that reads the users file again after the await and appends
\* to what it finds, without checking the username again
RegisterFinishReread(s) ==
    LET r == inflight[s]
        newUser == [id |-> now, username |-> r.username,
                    password |-> Hash(r.password)]
        users == Append(readUsers, newUser)
    IN  /\ usersFile' = writeUsers(users)
        /\ files' = IF WriteThrows THEN files
                     ELSE [files EXCEPT !["weight"] =
                             [u \in DOMAIN @ \cup {newUser.id} |->
                                 IF u = newUser.id THEN <<>> ELSE @[u]]]
        /\ resp' = [Response("register", 201, "") EXCEPT
                        !.user = newUser.username, !.uid = newUser.id]
        /\ okCount' = [okCount EXCEPT ![r.username] = @ + 1]
        /\ inflight' = [inflight EXCEPT ![s] = Idle]
        /\ UNCHANGED <<now, sessions, disk>>

\* lines 191-207: after the await
RegisterFinishCode(s) ==
    LET r == inflight[s]
        newUser == [id |-> now, username |-> r.username,
                    password |-> Hash(r.password)]
        users == Append(r.users, newUser)
    IN  /\ usersFile' = writeUsers(users)
        /\ files' = IF WriteThrows THEN files
                     ELSE [files EXCEPT !["weight"] =
                             [u \in DOMAIN @ \cup {newUser.id} |->
                                 IF u = newUser.id THEN <<>> ELSE @[u]]]
        /\ resp' = [Response("register", 201, "") EXCEPT
                        !.user = newUser.username, !.uid = newUser.id]
        /\ okCount' = [okCount EXCEPT ![r.username] = @ + 1]
        /\ inflight' = [inflight EXCEPT ![s] = Idle]
        /\ UNCHANGED <<now, sessions, disk>>

RegisterFinish(s) ==
    /\ inflight[s].op = "register"
    /\ okCount[inflight[s].username] < MaxOk
    /\ RegisterFinishCode(s)

(************************** POST /api/auth/login *************************)
\* lines 211-225: validation, lookup, then the await.  t is the session id
\* of the request: the id of the live session its cookie names, or else a
\* newly generated id that no other session or request has.
LoginStart(s, username, password, t) ==
    /\ inflight[s] = Idle
    /\ Live(t) \/ \A x \in Slots : inflight[x].op = "login" => inflight[x].tok # t
    /\ IF username = Missing \/ password = Missing
       THEN /\ resp' = [Response("login", 400, "Username and password required")
                          EXCEPT !.tok = t]
            /\ sessions' = Touched(t)
            /\ UNCHANGED inflight
       ELSE LET users == readUsers
                found == FindUser(users, username) IN
            IF found = {}
            THEN /\ resp' = [Response("login", 401, "Invalid credentials")
                               EXCEPT !.tok = t]
                 /\ sessions' = Touched(t)
                 /\ UNCHANGED inflight
            ELSE /\ inflight' = [inflight EXCEPT ![s] =
                        [op |-> "login", tok |-> t, password |-> password,
                         user |-> users[CHOOSE i \in found : \A j \in found : i <= j]]]
                 /\ UNCHANGED <<resp, sessions>>
    /\ UNCHANGED <<now, usersFile, files, okCount, disk>>

\* a login that tells a wrong password apart from an unknown username
LoginFinishTelling(s) ==
    /\ inflight[s].op = "login"
    /\ LET r == inflight[s] IN
       IF ~Compare(r.password, r.user.password)
       THEN /\ resp' = [Response("login", 401, "Wrong password")
                          EXCEPT !.tok = r.tok]
            /\ sessions' = Touched(r.tok)
       ELSE /\ sessions' = [t \in DOMAIN sessions \cup {r.tok} |->
                               IF t = r.tok
                               THEN [userId |-> r.user.id,
                                     username |-> r.user.username,
                                     created |-> now,
                                     expires |-> now + maxAge]
                               ELSE sessions[t]]
            /\ resp' = [Response("login", 200, "") EXCEPT
                          !.tok = r.tok, !.user = r.user.username, !.uid = r.user.id]
    /\ inflight' = [inflight EXCEPT ![s] = Idle]
    /\ UNCHANGED <<now, usersFile, files, okCount, disk>>

\* lines 227-237: after the await
LoginFinish(s) ==
    /\ inflight[s].op = "login"
    /\ LET r == inflight[s] IN
       IF ~Compare(r.password, r.user.password)
       THEN /\ resp' = [Response("login", 401, "Invalid credentials")
                          EXCEPT !.tok = r.tok]
            /\ sessions' = Touched(r.tok)
       ELSE \* the session was modified: it is saved under its id
            /\ sessions' = [t \in DOMAIN sessions \cup {r.tok} |->
                               IF t = r.tok
                               THEN [userId |-> r.user.id,
                                     username |-> r.user.username,
                                     created |-> now,
                                     expires |-> now + maxAge]
                               ELSE sessions[t]]
            /\ resp' = [Response("login", 200, "") EXCEPT
                          !.tok = r.tok, !.user = r.user.username, !.uid = r.user.id]
    /\ inflight' = [inflight EXCEPT ![s] = Idle]
    /\ UNCHANGED <<now, usersFile, files, okCount, disk>>

(************************* POST /api/auth/logout *************************)
\* a logout that ends every session of the store
LogoutAll(t) ==
    /\ sessions' = [x \in {} |-> sessions[x]]
    /\ resp' = [Response("logout", 200, "") EXCEPT !.tok = t]
    /\ UNCHANGED <<now, usersFile, files, inflight, okCount, disk>>

\* lines 241-248: req.session.destroy removes the entry of this session id;
\* MemoryStore.destroy never reports an error
Logout(t) ==
    /\ sessions' = Drop(sessions, t)
    /\ resp' = [Response("logout", 200, "") EXCEPT !.tok = t]
    /\ UNCHANGED <<now, usersFile, files, inflight, okCount, disk>>

(************************** GET /api/auth/status *************************)
Status(t) ==
    /\ IF Live(t)
       THEN resp' = [Response("status", 200, "") EXCEPT !.tok = t,
                        !.user = sessions[t].username, !.uid = sessions[t].userId]
       ELSE resp' = [Response("status", 200, "unauthenticated") EXCEPT !.tok = t]
    /\ sessions' = Touched(t)
    /\ UNCHANGED <<now, usersFile, files, inflight, okCount, disk>>

(**************************** stored records *****************************)
\* new Date(date).getTime() of the date strings used, in days since the
\* epoch (the order of the millisecond values); any other string parses to
\* an Invalid Date, whose time value is NaN
DateValue == ("2024-02-01" :> 19754) @@ ("2024-03-01" :> 19783)
ValidDates == DOMAIN DateValue
DateInputs == ValidDates \cup {"abc", Missing}

\* A JavaScript number is the set of its value: NaN is the empty set (it
\* is stored as null).  parseFloat of the numeric strings used; any other
\* string, and a missing field, gives NaN.
NaN == {}
Num(n) == {n}
FloatValue == ("70" :> 70) @@ ("1800" :> 1800) @@ ("0" :> 0)
NumberInputs == {"70"}
parseFloat(x) == IF x \in DOMAIN FloatValue THEN Num(FloatValue[x]) ELSE NaN
\* v || d
OrElse(v, d) == IF v = NaN \/ v = Num(0) THEN Num(d) ELSE v

\* an element null of a stored array
NullRec == [isNull |-> TRUE]
IsNull(e) == "isNull" \in DOMAIN e

\* by is history: the username of the session the record was written under
Record(id, date, val, by) == [id |-> id, date |-> date, val |-> val, by |-> by]

\* the arrays a bulk save carries: any JSON array; here the empty one, one
\* of null, and records in ascending and in descending order of date
BulkIds == {1}
BulkBodies(by) ==
    {<<>>, <<NullRec>>,
     <<Record(1, "2024-02-01", Num(0), by), Record(1, "2024-03-01", Num(0), by)>>,
     <<Record(1, "2024-03-01", Num(0), by), Record(1, "2024-02-01", Num(0), by)>>}

\* (a, b) => new Date(a.date) - new Date(b.date); Array.prototype.sort
\* takes a NaN result as +0
ByDateAsc(a, b) ==
    IF a.date \in ValidDates /\ b.date \in ValidDates
    THEN DateValue[a.date] - DateValue[b.date]
    ELSE 0

\* (a, b) => new Date(b.date) - new Date(a.date)
ByDateDesc(a, b) == ByDateAsc(b, a)

Cmp(dir, a, b) == IF dir = "asc" THEN ByDateAsc(a, b) ELSE ByDateDesc(a, b)

\* Array.prototype.sort is stable: x goes behind the last element that
\* does not come after it
RECURSIVE InsertSorted(_, _, _)
InsertSorted(dir, sorted, x) ==
    IF sorted = <<>> \/ Cmp(dir, x, sorted[Len(sorted)]) >= 0
    THEN Append(sorted, x)
    ELSE Append(InsertSorted(dir, SubSeq(sorted, 1, Len(sorted) - 1), x),
                sorted[Len(sorted)])

RECURSIVE SortFrom(_, _, _)
SortFrom(dir, sorted, rest) ==
    IF rest = <<>> THEN sorted
    ELSE SortFrom(dir, InsertSorted(dir, sorted, Head(rest)), Tail(rest))

Sort(dir, entries) == SortFrom(dir, <<>>, entries)

\* reading a property of null throws a TypeError: in the comparator when
\* the array has something to compare, in the filter callback always
HasNull(entries) == \E i \in 1..Len(entries) : IsNull(entries[i])
SortThrows(entries) == Len(entries) >= 2 /\ HasNull(entries)

(***************************** the data files ****************************)
existsSync(kind, userId) == userId \in DOMAIN files[kind]

\* a read that throws is caught and gives the empty array
ReadFile(kind, userId) ==
    IF existsSync(kind, userId) /\ ~ReadThrows THEN files[kind][userId] ELSE <<>>

readUserEntries(userId) == ReadFile("weight", userId)
readUserNutrition(userId) == ReadFile("nutrition", userId)

\* a write that does not throw
WriteFile(kind, userId, entries) ==
    files' = [files EXCEPT ![kind] =
                 [u \in DOMAIN @ \cup {userId} |->
                     IF u = userId THEN entries ELSE @[u]]]

TotalRecords ==
    LET RECURSIVE Sum(_, _)
        Sum(f, S) == IF S = {} THEN 0
                     ELSE LET u == CHOOSE x \in S : TRUE
                          IN Len(f[u]) + Sum(f, S \ {u})
    IN Sum(files["weight"], DOMAIN files["weight"])
       + Sum(files["nutrition"], DOMAIN files["nutrition"])
       + Sum(files["diet"], DOMAIN files["diet"])

\* bound of the model: the collections of one kind at a time hold records
OnlyKind(kind) ==
    \A k \in Kinds \ {kind} : \A u \in DOMAIN files[k] : files[k][u] = <<>>

Unauthenticated(op, kind, t) ==
    /\ resp' = Response(op, 401, "Not authenticated")
    /\ sessions' = Touched(t)
    /\ UNCHANGED files

(************************* the list routes *******************************)
List(t, kind) ==
    /\ IF ~isAuthenticated(t) THEN Unauthenticated("list", kind, t)
       ELSE /\ resp' = [Response("list", 200, "") EXCEPT
                          !.kind = kind, !.tok = t, !.user = sessions[t].username,
                          !.uid = sessions[t].userId,
                          !.body = ReadFile(kind, sessions[t].userId)]
            /\ sessions' = Touched(t)
            /\ UNCHANGED files
    /\ UNCHANGED <<now, usersFile, inflight, okCount, disk>>

\* GET /api/entries
GetEntries(t) == List(t, "weight")
\* GET /api/nutrition/entries
GetNutritionEntries(t) == List(t, "nutrition")
\* GET /api/diet
GetDiet(t) == List(t, "diet")

(************************** the add routes *******************************)
\* push, sort, write of an add, on the array that was read
PushSortWrite(entries, t, kind, dir, date, val) ==
    LET userId == sessions[t].userId
        newEntry == Record(now, date, val, sessions[t].username)
        pushed == Append(entries, newEntry)
        out == [Response("add", 201, "") EXCEPT
                  !.kind = kind, !.tok = t, !.user = sessions[t].username,
                  !.uid = userId, !.id = newEntry.id]
    IN  IF SortThrows(pushed)
        THEN /\ resp' = [out EXCEPT !.status = 500, !.error = "TypeError"]
             /\ UNCHANGED files
        ELSE IF WriteThrows
        THEN /\ resp' = [out EXCEPT !.status = 500, !.error = "Failed to save entry"]
             /\ UNCHANGED files
        ELSE /\ WriteFile(kind, userId, Sort(dir, pushed))
             /\ resp' = out

\* an add that starts from an empty array instead of the stored one
AddCodeNoRead(t, kind, dir, date, val) ==
    PushSortWrite(<<>>, t, kind, dir, date, val)

\* the read-modify-write of an add: read, then push, sort, write
AddCode(t, kind, dir, date, val) ==
    PushSortWrite(ReadFile(kind, sessions[t].userId), t, kind, dir, date, val)

\* an add that stores the record before it looks at the required fields
AddWriteFirst(t, kind, dir, required, date, val) ==
    /\ IF ~isAuthenticated(t) THEN Unauthenticated("add", kind, t)
       ELSE /\ sessions' = Touched(t)
            /\ TotalRecords < MaxRecords
            /\ OnlyKind(kind)
            /\ IF \E x \in required : x = Missing
               THEN /\ resp' = [Response("add", 400,
                                     IF kind = "weight" THEN "Date and weight are required"
                                     ELSE "Required fields missing")
                                  EXCEPT !.kind = kind]
                    /\ WriteFile(kind, sessions[t].userId,
                           Append(ReadFile(kind, sessions[t].userId),
                                  Record(now, date, val, sessions[t].username)))
               ELSE AddCode(t, kind, dir, date, val)
    /\ UNCHANGED <<now, usersFile, inflight, okCount, disk>>

Add(t, kind, dir, required, date, val) ==
    /\ IF ~isAuthenticated(t) THEN Unauthenticated("add", kind, t)
       ELSE /\ sessions' = Touched(t)
            /\ IF \E x \in required : x = Missing
               THEN /\ resp' = [Response("add", 400,
                                     IF kind = "weight" THEN "Date and weight are required"
                                     ELSE "Required fields missing")
                                  EXCEPT !.kind = kind]
                    /\ UNCHANGED files
               ELSE /\ TotalRecords < MaxRecords
                    /\ OnlyKind(kind)
                    /\ AddCode(t, kind, dir, date, val)
    /\ UNCHANGED <<now, usersFile, inflight, okCount, disk>>

\* POST /api/entries
PostEntries(t, date, weight) ==
    Add(t, "weight", "asc", {date, weight}, date, parseFloat(weight))

\* POST /api/nutrition/entry
PostNutritionEntry(t, date, type, name, calories) ==
    Add(t, "nutrition", "desc", {date, type, name, calories}, date,
        OrElse(parseFloat(calories), 0))

\* POST /api/diet
PostDiet(t, date, meal, foodName, calories) ==
    Add(t, "diet", "desc", {date, meal, foodName, calories}, date,
        parseFloat(calories))

(************************* the delete routes *****************************)
RemoveCode(t, kind, id) ==
    LET userId == sessions[t].userId
        entries == ReadFile(kind, userId)
        out == [Response("remove", 200, "") EXCEPT
                  !.kind = kind, !.tok = t, !.user = sessions[t].username,
                  !.uid = userId, !.id = id]
    IN  IF kind = "diet" /\ ~existsSync(kind, userId)
        THEN /\ resp' = [out EXCEPT !.status = 404, !.error = "No entries found"]
             /\ UNCHANGED files
        ELSE IF kind = "diet" /\ ReadThrows
        THEN /\ resp' = [out EXCEPT !.status = 500, !.error = "Failed to delete entry"]
             /\ UNCHANGED files
        ELSE IF HasNull(entries)
        THEN /\ resp' = [out EXCEPT !.status = 500, !.error = "TypeError"]
             /\ UNCHANGED files
        ELSE LET kept == SelectSeq(entries, LAMBDA e : e.id # id) IN
             IF Len(kept) = Len(entries)
             THEN /\ resp' = [out EXCEPT !.status = 404, !.error = "Entry not found"]
                  /\ UNCHANGED files
             ELSE IF WriteThrows
             THEN /\ resp' = [out EXCEPT !.status = 500, !.error = "Failed to delete entry"]
                  /\ UNCHANGED files
             ELSE /\ WriteFile(kind, userId, kept)
                  /\ resp' = out

Remove(t, kind, id) ==
    /\ IF ~isAuthenticated(t) THEN Unauthenticated("remove", kind, t)
       ELSE /\ sessions' = Touched(t)
            /\ RemoveCode(t, kind, id)
    /\ UNCHANGED <<now, usersFile, inflight, okCount, disk>>

\* DELETE /api/entries/:id
DeleteEntries(t, id) == Remove(t, "weight", id)
\* DELETE /api/nutrition/entry/:id
DeleteNutritionEntry(t, id) == Remove(t, "nutrition", id)
\* DELETE /api/diet/:id
DeleteDiet(t, id) == Remove(t, "diet", id)

(********************** POST /api/nutrition/entries **********************)
\* bulk save: the array of the request replaces the stored one
PostNutritionEntries(t, isArray, entries) ==
    /\ IF ~isAuthenticated(t) THEN Unauthenticated("replaceAll", "nutrition", t)
       ELSE /\ sessions' = Touched(t)
            /\ IF ~isArray
               THEN /\ resp' = [Response("replaceAll", 400, "Invalid data format")
                                  EXCEPT !.kind = "nutrition"]
                    /\ UNCHANGED files
               ELSE /\ TotalRecords - Len(readUserNutrition(sessions[t].userId))
                           + Len(entries) <= MaxRecords
                    /\ OnlyKind("nutrition")
                    /\ IF WriteThrows
                       THEN /\ resp' = [Response("replaceAll", 500, "Failed to save entries")
                                          EXCEPT !.kind = "nutrition", !.tok = t]
                            /\ UNCHANGED files
                       ELSE /\ WriteFile("nutrition", sessions[t].userId, entries)
                            /\ resp' = [Response("replaceAll", 200, "") EXCEPT
                                          !.kind = "nutrition", !.tok = t,
                                          !.user = sessions[t].username,
                                          !.uid = sessions[t].userId, !.body = entries]
    /\ UNCHANGED <<now, usersFile, inflight, okCount, disk>>

(****************************** the system *******************************)
Init ==
    /\ now = 1
    /\ usersFile = <<>>
    /\ files = [k \in FileKinds |-> <<>>]
    /\ sessions = <<>>
    /\ inflight = [s \in Slots |-> Idle]
    /\ resp = Response("none", 0, "")
    /\ okCount = [u \in Usernames |-> 0]
    /\ disk = "ok"

\* register requests only, racing each other
NextReg ==
    \/ \E x \in Millis : AdvanceTo(x)
    \/ \E s \in Slots, u \in Usernames \cup {Missing}, p \in Passwords \cup {Missing} :
          RegisterStart(s, u, p)
    \/ \E s \in Slots : RegisterFinish(s)

SpecReg == Init /\ [][NextReg]_vars

\* alice has registered (at time 1, with password pw1); bob has not
InitSession ==
    /\ now = 1
    /\ usersFile = <<[id |-> 1, username |-> "alice", password |-> Hash("pw1")]>>
    /\ files = [k \in FileKinds |-> IF k = "weight" THEN (1 :> <<>>) ELSE <<>>]
    /\ sessions = <<>>
    /\ inflight = [s \in Slots |-> Idle]
    /\ resp = Response("none", 0, "")
    /\ okCount = [u \in Usernames |-> IF u = "alice" THEN 1 ELSE 0]
    /\ disk = "ok"

NextSession ==
    \/ \E x \in Instants : AdvanceTo(x)
    \/ \E s \in Slots, u \in Usernames \cup {Missing}, p \in LoginPasswords \cup {Missing},
          t \in Tokens : LoginStart(s, u, p, t)
    \/ \E s \in Slots : LoginFinish(s)
    \/ \E t \in Tokens : Logout(t)
    \/ \E t \in Tokens : Status(t)
    \/ \E t \in Tokens : GetEntries(t)

SpecSession == InitSession /\ [][NextSession]_vars

\* alice has registered and is logged in under session t1; t2 is no session
InitData ==
    /\ now = 1
    /\ usersFile = <<[id |-> 1, username |-> "alice", password |-> Hash("pw1")]>>
    /\ files = [k \in FileKinds |-> IF k = "weight" THEN (1 :> <<>>) ELSE <<>>]
    /\ sessions = ("t1" :> [userId |-> 1, username |-> "alice",
                            created |-> 1, expires |-> 1 + maxAge])
    /\ inflight = [s \in Slots |-> Idle]
    /\ resp = Response("none", 0, "")
    /\ okCount = [u \in Usernames |-> IF u = "alice" THEN 1 ELSE 0]
    /\ disk = "ok"

\* the record ids a delete request may name
IdInputs == Millis \cup BulkIds

NextData ==
    \/ \E x \in Millis : AdvanceTo(x)
    \/ \E t \in Tokens : GetEntries(t)
    \/ \E t \in Tokens : GetNutritionEntries(t)
    \/ \E t \in Tokens : GetDiet(t)
    \/ \E t \in Tokens, d \in DateInputs, w \in NumberInputs : PostEntries(t, d, w)
    \/ \E t \in Tokens, d \in DateInputs, c \in NumberInputs :
          PostNutritionEntry(t, d, "lunch", "rice", c)
    \/ \E t \in Tokens, d \in DateInputs, c \in NumberInputs :
          PostDiet(t, d, "lunch", "rice", c)
    \/ \E t \in Tokens, id \in IdInputs : DeleteEntries(t, id)
    \/ \E t \in Tokens, id \in IdInputs : DeleteNutritionEntry(t, id)
    \/ \E t \in Tokens, id \in IdInputs : DeleteDiet(t, id)
    \/ \E t \in Tokens : PostNutritionEntries(t, FALSE, <<>>)
    \/ \E t \in Tokens : \E b \in BulkBodies(IF Live(t) THEN sessions[t].username ELSE "") :
          PostNutritionEntries(t, TRUE, b)

SpecData == InitData /\ [][NextData]_vars

\* from the empty store: alice and bob each register and log in, alice
\* (request slot r1) under session t1 and bob (slot r2) under session t2,
\* and add to and list their collections
NextIso ==
    \/ \E x \in Millis : AdvanceTo(x)
    \/ RegisterStart("r1", "alice", "pw1")
    \/ RegisterStart("r2", "bob", "pw1")
    \/ \E s \in Slots : RegisterFinish(s)
    \/ LoginStart("r1", "alice", "pw1", "t1")
    \/ LoginStart("r2", "bob", "pw1", "t2")
    \/ \E s \in Slots : LoginFinish(s)
    \/ \E t \in Tokens : PostEntries(t, "2024-02-01", "70")
    \/ \E t \in Tokens : PostNutritionEntry(t, "2024-02-01", "lunch", "rice", "70")
    \/ \E t \in Tokens : PostDiet(t, "2024-02-01", "lunch", "rice", "70")
    \/ \E t \in Tokens : GetEntries(t)
    \/ \E t \in Tokens : GetNutritionEntries(t)
    \/ \E t \in Tokens : GetDiet(t)

SpecIso == Init /\ [][NextIso]_vars

(*************************** the settings ********************************)
\* the goals returned when no settings file can be read
DefaultSettings ==
    [calorieGoal |-> Num(2000), proteinGoal |-> Num(150),
     carbsGoal |-> Num(200), fatsGoal |-> Num(65)]

\* readUserNutritionSettings, and the read of GET /api/diet/settings
readSettings(kind, userId) ==
    IF existsSync(kind, userId) /\ ~ReadThrows
    THEN files[kind][userId] ELSE DefaultSettings

GetSettings(t, kind) ==
    /\ IF ~isAuthenticated(t) THEN Unauthenticated("getSettings", kind, t)
       ELSE /\ resp' = [Response("getSettings", 200, "") EXCEPT
                          !.kind = kind, !.tok = t, !.uid = sessions[t].userId,
                          !.body = <<readSettings(kind, sessions[t].userId)>>]
            /\ sessions' = Touched(t)
            /\ UNCHANGED files
    /\ UNCHANGED <<now, usersFile, inflight, okCount, disk>>

\* GET /api/nutrition/settings
GetNutritionSettings(t) == GetSettings(t, "nutrition_settings")
\* GET /api/diet/settings
GetDietSettings(t) == GetSettings(t, "diet_settings")

\* the settings object built from the request body
ParseSettings(calorieGoal, proteinGoal, carbsGoal, fatsGoal) ==
    [calorieGoal |-> OrElse(parseFloat(calorieGoal), 2000),
     proteinGoal |-> OrElse(parseFloat(proteinGoal), 150),
     carbsGoal |-> OrElse(parseFloat(carbsGoal), 200),
     fatsGoal |-> OrElse(parseFloat(fatsGoal), 65)]

\* write the settings, answer 500 if the write throws
WriteSettings(t, kind, settings) ==
    LET out == [Response("saveSettings", 200, "") EXCEPT
                   !.kind = kind, !.tok = t, !.uid = sessions[t].userId,
                   !.body = <<settings>>]
    IN  IF WriteThrows
        THEN /\ resp' = [out EXCEPT !.status = 500, !.error = "Failed to save settings",
                                    !.body = <<>>]
             /\ UNCHANGED files
        ELSE /\ WriteFile(kind, sessions[t].userId, settings)
             /\ resp' = out

\* a save that keeps the stored value of every field the request leaves out
SaveSettingsMerge(t, kind, calorieGoal, proteinGoal, carbsGoal, fatsGoal) ==
    LET old == readSettings(kind, sessions[t].userId)
        new == ParseSettings(calorieGoal, proteinGoal, carbsGoal, fatsGoal)
    IN  WriteSettings(t, kind,
            [calorieGoal |-> IF calorieGoal = Missing THEN old.calorieGoal ELSE new.calorieGoal,
             proteinGoal |-> IF proteinGoal = Missing THEN old.proteinGoal ELSE new.proteinGoal,
             carbsGoal |-> IF carbsGoal = Missing THEN old.carbsGoal ELSE new.carbsGoal,
             fatsGoal |-> IF fatsGoal = Missing THEN old.fatsGoal ELSE new.fatsGoal])

\* the handler body: build the settings object from the body alone, write it
SaveSettingsCode(t, kind, calorieGoal, proteinGoal, carbsGoal, fatsGoal) ==
    WriteSettings(t, kind, ParseSettings(calorieGoal, proteinGoal, carbsGoal, fatsGoal))

SaveSettings(t, kind, calorieGoal, proteinGoal, carbsGoal, fatsGoal) ==
    /\ IF ~isAuthenticated(t) THEN Unauthenticated("saveSettings", kind, t)
       ELSE /\ sessions' = Touched(t)
            /\ SaveSettingsCode(t, kind, calorieGoal, proteinGoal, carbsGoal, fatsGoal)
    /\ UNCHANGED <<now, usersFile, inflight, okCount, disk>>

\* POST /api/nutrition/settings
PostNutritionSettings(t, calorieGoal, proteinGoal, carbsGoal, fatsGoal) ==
    SaveSettings(t, "nutrition_settings", calorieGoal, proteinGoal, carbsGoal, fatsGoal)
\* POST /api/diet/settings
PostDietSettings(t, calorieGoal, proteinGoal, carbsGoal, fatsGoal) ==
    SaveSettings(t, "diet_settings", calorieGoal, proteinGoal, carbsGoal, fatsGoal)

\* the values a goal field of a request may have: absent, a number, a
\* string that is no number, zero
GoalInputs == {Missing, "1800", "abc", "0"}
\* the carbs and fats goals take fewer values, to keep the state space small
CarbsInputs == {Missing, "1800"}
FatsInputs == {Missing, "abc"}

\* alice, logged in under t1, reads and saves her settings
NextSettings ==
    \/ \E t \in Tokens : GetNutritionSettings(t)
    \/ \E t \in Tokens : GetDietSettings(t)
    \/ \E t \in Tokens, c, p \in GoalInputs, cb \in CarbsInputs, f \in FatsInputs :
          PostNutritionSettings(t, c, p, cb, f)
    \/ \E t \in Tokens, c, p \in GoalInputs, cb \in CarbsInputs, f \in FatsInputs :
          PostDietSettings(t, c, p, cb, f)

SpecSettings == InitData /\ [][NextSettings]_vars

(************************ requests with bad input ***********************)
\* the weight and calories fields of a request: a number, a string that is
\* no number, absent
WeightInputs == {"70", "abc", Missing}
InputDates == {"2024-02-01", Missing}

\* alice, logged in under t1, sends complete and incomplete add and bulk
\* requests; bob registers with and without the required fields
NextInput ==
    \/ \E s \in Slots, u \in {"bob", Missing}, p \in {"pw1", Missing} :
          RegisterStart(s, u, p)
    \/ \E s \in Slots : RegisterFinish(s)
    \/ \E t \in Tokens, d \in InputDates, w \in WeightInputs : PostEntries(t, d, w)
    \/ \E t \in Tokens, d \in InputDates, ty \in {"lunch", Missing}, c \in {"70", Missing} :
          PostNutritionEntry(t, d, ty, "rice", c)
    \/ \E t \in Tokens, d \in InputDates, c \in WeightInputs :
          PostDiet(t, d, "lunch", "rice", c)
    \/ \E t \in Tokens : PostNutritionEntries(t, FALSE, <<>>)
    \/ \E t \in Tokens : \E b \in BulkBodies(IF Live(t) THEN sessions[t].username ELSE "") :
          PostNutritionEntries(t, TRUE, b)

SpecInput == InitData /\ [][NextInput]_vars

(************************* a failing file system *************************)
DiskStates == {"ok", "readFail", "writeFail"}

\* the requests that answer after reaching a write of the store: the end
\* of bob's register and alice's adds, deletes, bulk saves and settings
\* saves under session t1
WritingStep ==
    \/ RegisterFinish("r1")
    \/ \E d \in ValidDates : PostEntries("t1", d, "70")
    \/ \E d \in ValidDates : PostNutritionEntry("t1", d, "lunch", "rice", "70")
    \/ \E d \in ValidDates : PostDiet("t1", d, "lunch", "rice", "70")
    \/ DeleteEntries("t1", 1)
    \/ DeleteNutritionEntry("t1", 1)
    \/ DeleteDiet("t1", 1)
    \/ \E b \in BulkBodies("alice") : PostNutritionEntries("t1", TRUE, b)
    \/ PostNutritionSettings("t1", "1800", Missing, Missing, Missing)
    \/ PostDietSettings("t1", "1800", Missing, Missing, Missing)

NextFault ==
    \/ \E d \in DiskStates : SetDisk(d)
    \/ RegisterStart("r1", "bob", "pw1")
    \/ WritingStep

SpecFault == InitData /\ [][NextFault]_vars

(************************* the protected routes **************************)
\* a request to a route behind isAuthenticated, with complete or
\* incomplete input, naming a stored or an absent record id
ProtectedRequest(t) ==
    \/ GetEntries(t)
    \/ GetNutritionEntries(t)
    \/ GetDiet(t)
    \/ GetNutritionSettings(t)
    \/ GetDietSettings(t)
    \/ \E d \in InputDates, w \in {"70", Missing} : PostEntries(t, d, w)
    \/ \E d \in InputDates, c \in {"70", Missing} :
          PostNutritionEntry(t, d, "lunch", "rice", c)
    \/ \E d \in InputDates, c \in {"70", Missing} : PostDiet(t, d, "lunch", "rice", c)
    \/ \E id \in IdInputs : DeleteEntries(t, id)
    \/ \E id \in IdInputs : DeleteNutritionEntry(t, id)
    \/ \E id \in IdInputs : DeleteDiet(t, id)
    \/ PostNutritionEntries(t, FALSE, <<>>)
    \/ \E b \in BulkBodies(IF Live(t) THEN sessions[t].username ELSE "") :
          PostNutritionEntries(t, TRUE, b)
    \/ PostNutritionSettings(t, "1800", Missing, Missing, Missing)
    \/ PostDietSettings(t, "1800", Missing, Missing, Missing)

\* alice's session t1 is used, expires (24 hours pass) or is logged out;
\* t2 names no session
NextGate ==
    \/ AdvanceTo(1 + maxAge)
    \/ \E t \in Tokens : Logout(t)
    \/ \E t \in Tokens : ProtectedRequest(t)

SpecGate == InitData /\ [][NextGate]_vars

(******************************* claims **********************************)
\* the step of an add request, a delete request
AddStep(t, kind) ==
    \E d \in DateInputs, v \in NumberInputs :
        \/ kind = "weight" /\ PostEntries(t, d, v)
        \/ kind = "nutrition" /\ PostNutritionEntry(t, d, "lunch", "rice", v)
        \/ kind = "diet" /\ PostDiet(t, d, "lunch", "rice", v)

RemoveStep(t, kind, id) ==
    \/ kind = "weight" /\ DeleteEntries(t, id)
    \/ kind = "nutrition" /\ DeleteNutritionEntry(t, id)
    \/ kind = "diet" /\ DeleteDiet(t, id)

\* how often x occurs in the array
Count(entries, x) == Cardinality({i \in 1..Len(entries) : entries[i] = x})
Elems(entries) == {entries[i] : i \in 1..Len(entries)}

\* C1: no insertion is lost.  Handlers run one at a time, so every
\* interleaving of add requests is a sequence of add steps; each add that
\* returns success leaves the stored collection one record larger, with
\* every record it held before still in it as often as before, so the size
\* after the requests is the initial size plus the number of successes.
C1_NoInsertionLost ==
    [][\A t \in Tokens, k \in Kinds :
          (resp'.op = "add" /\ resp'.status = 201 /\ resp'.tok = t /\ resp'.kind = k
             /\ AddStep(t, k)) =>
              LET before == ReadFile(k, resp'.uid)
                  after == files'[k][resp'.uid]
              IN  /\ Len(after) = Len(before) + 1
                  /\ \A e \in Elems(before) : Count(after, e) >= Count(before, e)]_vars

\* two adds to one collection have succeeded at the same clock reading
C1_Witness ==
    /\ resp.op = "add" /\ resp.status = 201
    /\ Len(ReadFile(resp.kind, resp.uid)) >= 2
    /\ \A e \in Elems(ReadFile(resp.kind, resp.uid)) : ~IsNull(e) /\ e.id = now

\* C2: among the register requests for one username at most one returns
\* success (201).
C2_AtMostOneSuccess == \A u \in Usernames : okCount[u] <= 1

\* C3: the users file never holds two records with the same username.
C3_UniqueUsernames ==
    \A i, j \in 1..Len(usersFile) :
        i # j => usersFile[i].username # usersFile[j].username

\* two overlapping registers for one username have both written the file
C3_Witness ==
    \E u \in Usernames : okCount[u] = 2 /\ FindUser(usersFile, u) # {}

\* C4: a list under one user's session returns no record that was written
\* under another user's session.
C4_Isolation ==
    (resp.op = "list" /\ resp.status = 200) =>
        \A e \in Elems(resp.body) : IsNull(e) \/ e.by = resp.user

\* C5: no two records of a collection that only adds build have the same id.
C5_UniqueIds ==
    \A k \in {"weight", "diet"} : \A u \in DOMAIN files[k] :
        \A i, j \in 1..Len(files[k][u]) :
            i # j => files[k][u][i].id # files[k][u][j].id

\* C6: a remove that succeeds removes exactly one record of a collection
\* that adds built.
C6_RemovesExactlyOne ==
    [][\A t \in Tokens, k \in {"weight", "diet"}, id \in IdInputs :
          (RemoveStep(t, k, id) /\ resp'.status = 200) =>
              Len(files'[k][resp'.uid]) = Len(ReadFile(k, resp'.uid)) - 1]_vars

\* C7: removing an id that no record of the collection has fails with
\* NotFound (404) and leaves the stored collection unchanged.
C7_RemoveAbsentIsNotFound ==
    [][\A t \in Tokens, k \in Kinds, id \in IdInputs :
          (RemoveStep(t, k, id) /\ isAuthenticated(t)
             /\ \A e \in Elems(ReadFile(k, sessions[t].userId)) : IsNull(e) \/ e.id # id)
          => (resp'.status = 404 /\ files' = files)]_vars

\* ascending by date: no record with a later date stands before one with
\* an earlier date
SortedAsc(entries) ==
    \A i, j \in 1..Len(entries) :
        (i < j /\ ~IsNull(entries[i]) /\ ~IsNull(entries[j])
           /\ entries[i].date \in ValidDates /\ entries[j].date \in ValidDates)
        => DateValue[entries[i].date] <= DateValue[entries[j].date]

SortedDesc(entries) ==
    \A i, j \in 1..Len(entries) :
        (i < j /\ ~IsNull(entries[i]) /\ ~IsNull(entries[j])
           /\ entries[i].date \in ValidDates /\ entries[j].date \in ValidDates)
        => DateValue[entries[i].date] >= DateValue[entries[j].date]

\* C8: right after a successful weight add with a valid date the user's
\* list is sorted ascending by date and holds the new entry once more than
\* before.
C8_SortedAfterAdd ==
    [][\A t \in Tokens, d \in ValidDates, w \in NumberInputs :
          (PostEntries(t, d, w) /\ resp'.status = 201) =>
              LET before == readUserEntries(resp'.uid)
                  after == files'["weight"][resp'.uid]
                  new == Record(resp'.id, d, parseFloat(w), resp'.user)
              IN  /\ SortedAsc(after)
                  /\ Count(after, new) = Count(before, new) + 1]_vars

\* C9: every stored nutrition collection is sorted descending by date.
C9_NutritionSortedDesc ==
    \A u \in DOMAIN files["nutrition"] : SortedDesc(files["nutrition"][u])

\* the step of a protected request
ProtectedStep(t) == GetEntries(t)

\* C10: a session is accepted right after the login that creates it, and
\* rejected by protected operations after logout and once 24 hours have
\* passed since its creation.
C10_SessionLifetime ==
    [][/\ \A s \in Slots :
            (LoginFinish(s) /\ resp'.status = 200) =>
                (\A t \in Tokens : resp'.tok = t =>
                    (isAuthenticated(t))' /\ sessions'[t].userId = resp'.uid
                       /\ sessions'[t].username = resp'.user)
       /\ \A t \in Tokens : Logout(t) => ~(isAuthenticated(t))'
       /\ \A t \in Tokens :
            (ProtectedStep(t) /\ t \in DOMAIN sessions
                /\ now >= sessions[t].created + maxAge) => resp'.status = 401]_vars


\* the login of an unknown username fails before the await; the login of a
\* known username with a wrong password fails after it
UnknownUserStep(s, t) ==
    \E u \in Usernames, p \in LoginPasswords :
        /\ FindUser(readUsers, u) = {}
        /\ LoginStart(s, u, p, t)

WrongPasswordStep(s) ==
    /\ inflight[s].op = "login"
    /\ ~Compare(inflight[s].password, inflight[s].user.password)
    /\ LoginFinish(s)

\* C12: a login with a wrong password for an existing username and a login
\* with a nonexistent username give the same error response, status 401
\* with the body {error: 'Invalid credentials'}, and neither creates a
\* session: no session id is added to the store and no session changes
\* its user.
C12_SameLoginFailure ==
    [][\A s \in Slots :
          (resp'.op = "login" /\
             (WrongPasswordStep(s) \/ \E t \in Tokens : UnknownUserStep(s, t))) =>
              /\ resp'.status = 401
              /\ resp'.error = "Invalid credentials"
              /\ DOMAIN sessions' \subseteq DOMAIN sessions
              /\ \A x \in DOMAIN sessions' :
                     sessions'[x].userId = sessions[x].userId]_vars

\* a login has just failed with 401 and its session id names no session,
\* while a login with a wrong password is waiting for its comparison
C12_Witness ==
    /\ resp.op = "login" /\ resp.status = 401
    /\ resp.tok \notin DOMAIN sessions
    /\ \E s \in Slots :
          /\ inflight[s].op = "login"
          /\ ~Compare(inflight[s].password, inflight[s].user.password)

\* C17: once no register request is in flight, every username for which a
\* register returned success (201) has a record in the users file.
C17_NoRegistrationLost ==
    (\A s \in Slots : inflight[s] = Idle) =>
        \A u \in Usernames : okCount[u] >= 1 => FindUser(usersFile, u) # {}

\* the ids of the users in the users file
RegisteredIds == {usersFile[i].id : i \in 1..Len(usersFile)}

\* C19: the step that completes a registration leaves every stored
\* collection of every user already in the users file as it was.
C19_RegisterKeepsOthers ==
    [][\A s \in Slots :
          (resp'.op = "register" /\ resp'.status = 201 /\ RegisterFinish(s)) =>
              \A k \in FileKinds : \A id \in RegisteredIds \cap DOMAIN files[k] :
                  files'[k][id] = files[k][id]]_vars

\* C20: a logout removes only the session of the id it is called with:
\* every other session of the store stays as it was, so it still resolves
\* to its user, and the logout answers 200 whether or not its id named a
\* session.
C20_LogoutOnlyOwn ==
    [][\A t \in Tokens :
          (resp'.op = "logout" /\ Logout(t)) =>
              /\ resp'.status = 200
              /\ \A x \in (DOMAIN sessions) \ {t} :
                     x \in DOMAIN sessions' /\ sessions'[x] = sessions[x]]_vars

\* a logout has just ended, its id names no session, and another session
\* of alice is live
C20_Witness ==
    /\ resp.op = "logout" /\ resp.status = 200
    /\ resp.tok \notin DOMAIN sessions
    /\ \E x \in Tokens : x # resp.tok /\ Live(x) /\ sessions[x].username = "alice"


\* the step of a save request for one kind of settings
SaveStep(t, kind, c, p, cb, f) ==
    \/ kind = "nutrition_settings" /\ PostNutritionSettings(t, c, p, cb, f)
    \/ kind = "diet_settings" /\ PostDietSettings(t, c, p, cb, f)

\* what getSettings returns for a field after a save, as the claim has it:
\* the saved value if the field was given, else the default on the first
\* save and the last saved value on a later one
Kept(kind, userId, field, given, saved) ==
    IF given # Missing THEN saved
    ELSE IF existsSync(kind, userId) THEN files[kind][userId][field]
    ELSE DefaultSettings[field]

\* C13 as stated: after a successful saveSettings, getSettings returns the
\* given fields as saved, and each field not given keeps the default only
\* on the user's first save and its last saved value otherwise.
C13_KeepsLastSaved ==
    [][\A t \in Tokens, k \in SettingsKinds :
       (resp'.op = "saveSettings" /\ resp'.status = 200 /\ resp'.kind = k /\ resp'.tok = t) =>
       \A c, p \in GoalInputs, cb \in CarbsInputs, f \in FatsInputs :
          SaveStep(t, k, c, p, cb, f) =>
              LET got == readSettings(k, sessions[t].userId)'
                  new == ParseSettings(c, p, cb, f)
              IN  /\ got.calorieGoal = Kept(k, sessions[t].userId, "calorieGoal", c, new.calorieGoal)
                  /\ got.proteinGoal = Kept(k, sessions[t].userId, "proteinGoal", p, new.proteinGoal)
                  /\ got.carbsGoal = Kept(k, sessions[t].userId, "carbsGoal", cb, new.carbsGoal)
                  /\ got.fatsGoal = Kept(k, sessions[t].userId, "fatsGoal", f, new.fatsGoal)]_vars

\* the value stored for a field: the number given if it is a number other
\* than zero, else the field's default
Stored(field, given) ==
    IF given \in DOMAIN FloatValue /\ FloatValue[given] # 0
    THEN Num(FloatValue[given]) ELSE DefaultSettings[field]

\* C13 amended: after a successful saveSettings, getSettings returns for
\* each of the four fields the given value if it is a number other than
\* zero, and the field's default if the field is missing, not numeric or
\* zero, whatever was saved before.
C13_SettingsRoundTrip ==
    [][\A t \in Tokens, k \in SettingsKinds :
       (resp'.op = "saveSettings" /\ resp'.status = 200 /\ resp'.kind = k /\ resp'.tok = t) =>
       \A c, p \in GoalInputs, cb \in CarbsInputs, f \in FatsInputs :
          SaveStep(t, k, c, p, cb, f) =>
              readSettings(k, sessions[t].userId)' =
                  [calorieGoal |-> Stored("calorieGoal", c),
                   proteinGoal |-> Stored("proteinGoal", p),
                   carbsGoal |-> Stored("carbsGoal", cb),
                   fatsGoal |-> Stored("fatsGoal", f)]]_vars

\* a save that gave only the calorie goal has succeeded: the stored
\* settings hold 1800 with the three defaults, and the user's other
\* settings file holds goals saved before that are not the defaults
C13_Witness ==
    /\ resp.op = "saveSettings" /\ resp.status = 200
    /\ resp.body = <<[DefaultSettings EXCEPT !.calorieGoal = Num(1800)]>>
    /\ readSettings(resp.kind, resp.uid) = resp.body[1]
    /\ \E k \in SettingsKinds \ {resp.kind} :
          /\ existsSync(k, resp.uid)
          /\ files[k][resp.uid].proteinGoal = Num(1800)


\* C15: a weight add whose date or weight is missing, or whose weight is
\* not numeric, fails with InvalidInput (400) and leaves the stored
\* collections as they were.
C15_WeightAddValidates ==
    [][\A t \in Tokens, d \in InputDates, w \in WeightInputs :
          (resp'.op = "add" /\ isAuthenticated(t)
             /\ (d = Missing \/ w = Missing \/ parseFloat(w) = NaN)
             /\ PostEntries(t, d, w)) =>
              resp'.status = 400 /\ files' = files]_vars

\* the error bodies of the InvalidInput responses of register, the add
\* routes and the bulk save
InvalidInputErrors ==
    {"Username and password required", "Date and weight are required",
     "Required fields missing", "Invalid data format"}

\* C16: a register, weight add, nutrition add, diet add or bulk save that
\* fails with InvalidInput leaves the users file and every collection
\* unchanged.
C16_ValidationBeforeStorage ==
    [][(resp'.status = 400 /\ resp'.error \in InvalidInputErrors /\ NextInput) =>
          files' = files /\ usersFile' = usersFile]_vars

\* a request has just failed validation while the store holds records
C16_Witness ==
    /\ resp.status = 400 /\ resp.error \in InvalidInputErrors
    /\ TotalRecords >= 1


\* C14: when the write of the store fails, a register, add, remove, bulk
\* save or settings save does not answer with a success status.
C14_WriteFailureReported ==
    [][(WriteThrows /\ WritingStep) => resp'.status \notin {200, 201}]_vars

\* C18: after an add that returns success, every record that was in the
\* stored collection before the add is still in it, as often as before,
\* also when the read of the collection fails.
C18_AddKeepsRecords ==
    [][\A t \in Tokens, k \in Kinds :
          (resp'.op = "add" /\ resp'.status = 201 /\ resp'.tok = t /\ resp'.kind = k
             /\ existsSync(k, resp'.uid) /\ AddStep(t, k)) =>
              \A e \in Elems(files[k][resp'.uid]) :
                  Count(files'[k][resp'.uid], e) >= Count(files[k][resp'.uid], e)]_vars


\* C11: a request to a protected route whose session id names no session
\* or an expired one is answered 401 'Not authenticated', whatever its
\* other inputs are, and leaves the users file and every collection
\* unchanged.
C11_UnauthenticatedFirst ==
    [][\A t \in Tokens :
          (~Live(t) /\ ProtectedRequest(t)) =>
              /\ resp'.status = 401
              /\ resp'.error = "Not authenticated"
              /\ files' = files
              /\ usersFile' = usersFile]_vars

\* a request has been refused after the 24 hours of the session have
\* passed, while the store holds records
C11_Witness ==
    /\ resp.status = 401 /\ resp.error = "Not authenticated"
    /\ now > maxAge
    /\ sessions = <<>>
    /\ TotalRecords >= 1

====
